---- MODULE Spec2Model ----
(***************************************************************************)
(* atomalloc: an asynchronous size-classed block allocator.                *)
(*                                                                         *)
(* The model follows the Rust sources at the granularity of one shared     *)
(* memory access (atomic read-modify-write, load, queue pop or push) per   *)
(* step: the futures run on a multi-threaded executor, so tasks interleave *)
(* between any two such accesses.  Folded into the step of the access that *)
(* precedes them are: computation on task-local values; accesses to a      *)
(* block the task has in hand (no other task can reach it); and updates of *)
(* the counters no operation ever reads (the statistics and the SizePool   *)
(* block counts), which commute with every step of every other task.       *)
(* Every yield point of the code is a position of its own.  Block bytes    *)
(* are kept per 1024-byte chunk (CHUNK_SIZE): a chunk is either all zero   *)
(* or holds a non-zero byte.                                               *)
(***************************************************************************)
EXTENDS Integers, Sequences, FiniteSets, TLC

\* ------------------------------------------------------------------ bounds

\* usize arithmetic is modular; the width is scaled down so that a wrapped
\* counter stays inside the range of the model checker's integers.
UsizeModulus == 1048576

\* number of allocate calls one task may start
MaxAllocs == 2

\* number of write calls one task may start
MaxWrites == 1

\* number of direct try_acquire calls one task may make on shared blocks
MaxAcquires == 2

\* number of direct release calls one task may make on shared blocks
MaxReleases == 1
MaxCycles == 9

Tasks == {"t1", "t2", "t3"}

NoBlock == 0
NoClass == -1

\* ------------------------------------------------------------------ helpers

Max(a, b) == IF a >= b THEN a ELSE b
Min(a, b) == IF a <= b THEN a ELSE b

RECURSIVE Pow2AtLeast(_, _)
Pow2AtLeast(p, n) == IF p >= n THEN p ELSE Pow2AtLeast(2 * p, n)

\* usize::next_power_of_two: the smallest power of two >= n (1 for n = 0)
NextPowerOfTwo(n) == Pow2AtLeast(1, n)

RECURSIVE TrailingZeros(_)
\* usize::trailing_zeros, used by the code on powers of two only
TrailingZeros(n) == IF n % 2 = 1 THEN 0 ELSE 1 + TrailingZeros(n \div 2)

IsPowerOfTwo(n) == n > 0 /\ NextPowerOfTwo(n) = n

RECURSIVE SumSizes(_, _)
SumSizes(f, S) ==
    IF S = {} THEN 0
    ELSE LET x == CHOOSE y \in S : TRUE IN f[x] + SumSizes(f, S \ {x})

\* ------------------------------------------------------------------ config

\* AtomAllocConfig::validate, on the fields the allocator core reads
Validate(cfg) ==
    /\ cfg.max_memory >= cfg.initial_pool_size
    /\ IsPowerOfTwo(cfg.min_block_size)
    /\ IsPowerOfTwo(cfg.max_block_size)
    /\ cfg.max_block_size >= cfg.min_block_size

\* BlockCache::SIZE_CLASSES, indexed from 0 as in the code
SIZE_CLASSES == <<32, 64, 128, 256, 512, 1024, 2048, 4096, 8192>>
ClassIdx == 0 .. (Len(SIZE_CLASSES) - 1)
ClassSize(i) == SIZE_CLASSES[i + 1]

\* Block::write / Block::clear chunk length
CHUNK_SIZE == 1024

\* BlockCache::get_size_class_index
GetSizeClassIndex(size) ==
    IF size <= 32 THEN 0
    ELSE LET size_log2 == TrailingZeros(NextPowerOfTwo(size - 1))
             index == Max(size_log2 - 5, 0)
         IN IF index < Len(SIZE_CLASSES) THEN index ELSE NoClass

RECURSIVE PoolSizesFrom(_, _)
PoolSizesFrom(size, maxsz) ==
    IF size <= maxsz THEN <<size>> \o PoolSizesFrom(2 * size, maxsz) ELSE <<>>

\* MemoryPool::create_size_pools: the block size of each SizePool in order
CreateSizePools(cfg) == PoolSizesFrom(cfg.min_block_size, cfg.max_block_size)

\* MemoryPool::get_size_pool: [ok, index] with index counted from 0
GetSizePool(cfg, requested_size) ==
    LET size == NextPowerOfTwo(requested_size) IN
    IF size < cfg.min_block_size THEN [ok |-> FALSE, index |-> 0]
    ELSE LET index == TrailingZeros(size) - TrailingZeros(cfg.min_block_size)
         IN IF index < Len(CreateSizePools(cfg))
            THEN [ok |-> TRUE, index |-> index]
            ELSE [ok |-> FALSE, index |-> 0]

\* effective_max in MemoryPool::allocate_with_generation
EffectiveMax(cfg) == (cfg.max_memory * 3) \div 4

\* the chunk offsets Block::clear walks: (0..size).step_by(CHUNK_SIZE)
NumChunks(size) == (size + CHUNK_SIZE - 1) \div CHUNK_SIZE


\* ------------------------------------------------------------------ state

VARIABLES
    config,             \* AtomAllocConfig of the allocator under test
    workload,           \* what the callers may ask for: request sizes, write inputs
    budget,             \* per task: allocate and write calls still to be started
    blocks,             \* every Block ever created, by id: size, state word, bytes
    hot_queue,          \* SizeClass.hot_queue per class index
    cold_queue,         \* SizeClass.cold_queue per class index
    allocation_count,   \* SizeClass.allocation_count per class index
    free_blocks,        \* SizePool.free_blocks per pool (pool index + 1)
    allocated_blocks,   \* SizePool.allocated_blocks per pool
    total_blocks,       \* SizePool.total_blocks per pool
    total_memory,       \* MemoryPool.total_memory
    current_generation, \* BlockManager.current_generation
    stats,              \* AtomAllocStats counters
    task,               \* per task: position in the running operation and its locals
    held,               \* per task: the blocks the caller holds
    issued,             \* history: values returned by new_generation, in order
    reuse,              \* history: progress of an allocate; deallocate; allocate run
    returned            \* history: the return_block calls that pushed a block, in order

vars == <<config, workload, budget, blocks, hot_queue, cold_queue,
          allocation_count, free_blocks, allocated_blocks, total_blocks,
          total_memory, current_generation, stats, task, held, issued, reuse,
          returned>>

\* everything but the variables an operation step touches through Step
envVars == <<config, workload>>

BlockIds == 1 .. Len(blocks)

\* the locals of a task between operations.  Beside the locals of the code:
\* contrib is what the running call has added to the byte counters, hits and
\* misses count its record_cache_hit and record_cache_miss calls, and changed
\* tells whether it has taken a block off a queue, recorded an allocation or
\* moved total_memory.  For a direct try_acquire call, acquired is what it
\* returned and was_in_use the in-use bit it found
IdleTask ==
    [pc |-> "idle", size |-> 0, blk |-> NoBlock, attempt |-> 0, generation |-> 0,
     current_total |-> 0, alloc_count |-> 0, retry |-> FALSE, path |-> "none",
     err |-> "none", i |-> 0, contrib |-> 0, off |-> 0, len |-> 0,
     hits |-> 0, misses |-> 0, changed |-> FALSE,
     acquired |-> FALSE, was_in_use |-> FALSE]

\* a task whose operation panicked: it never runs again, and what it had in
\* hand is gone
Panicked == [IdleTask EXCEPT !.pc = "panicked"]

NoReuse ==
    [phase |-> 0, size |-> 0, blk |-> NoBlock, gen |-> 0, empty |-> FALSE,
     blk2 |-> NoBlock, gen2 |-> 0, nextempty |-> FALSE]

Quiescent == \A t \in Tasks : task[t].pc = "idle"

\* AtomAllocStats::new
NewStats ==
    [total_allocated |-> 0, total_freed |-> 0, current_allocated |-> 0,
     cache_hits |-> 0, cache_misses |-> 0]

\* Block::new: the state word is the generation alone, so both flag bits are clear
NewBlock(size, generation) ==
    [size |-> size, generation |-> generation, in_use |-> FALSE, zeroed |-> FALSE,
     data |-> {}, wrote |-> FALSE]

\* AtomAlloc::with_config: the allocator right after construction
InitAllocator(cfg) ==
    /\ config = cfg
    /\ blocks = <<>>
    /\ hot_queue = [c \in ClassIdx |-> <<>>]
    /\ cold_queue = [c \in ClassIdx |-> <<>>]
    /\ allocation_count = [c \in ClassIdx |-> 0]
    /\ free_blocks = [p \in 1 .. Len(CreateSizePools(cfg)) |-> <<>>]
    /\ allocated_blocks = [p \in 1 .. Len(CreateSizePools(cfg)) |-> 0]
    /\ total_blocks = [p \in 1 .. Len(CreateSizePools(cfg)) |-> 0]
    /\ total_memory = 0
    /\ current_generation = 0
    /\ stats = NewStats
    /\ task = [t \in Tasks |-> IdleTask]
    /\ held = [t \in Tasks |-> {}]
    /\ issued = <<>>
    /\ reuse = NoReuse
    /\ returned = <<>>

Set(t, r) == task' = [task EXCEPT ![t] = r]

\* a wrapping usize subtraction (AtomicUsize::fetch_sub)
WrappingSub(a, b) == (a - b + UsizeModulus) % UsizeModulus

\* a wrapping usize addition (AtomicUsize::fetch_add)
WrappingAdd(a, b) == (a + b) % UsizeModulus


\* ------------------------------------------------------------------ shared pieces

\* SegQueue::pop on an empty queue gives None, else the oldest element
QueueHead(q) == IF q = <<>> THEN NoBlock ELSE Head(q)

\* a pop that reads the oldest element and leaves it in the queue
QueueRestPeek(q) == q

\* what SegQueue::pop leaves in the queue
QueueRest(q) == IF q = <<>> THEN <<>> ELSE Tail(q)

\* a try_acquire that tests the in-use bit of the word after the fetch_or
TryAcquireResultAfter(b) == [blocks EXCEPT ![b].in_use = TRUE][b].in_use

\* a try_acquire that returns the in-use bit it found, not its negation
TryAcquireResultInverted(b) == blocks[b].in_use

\* BlockOps::try_acquire: fetch_or(IN_USE_FLAG); TRUE iff the bit was clear before
TryAcquireResult(b) == ~blocks[b].in_use

\* a try_acquire that also stamps the block with the current generation
TryAcquireRefresh(b) ==
    blocks' = [blocks EXCEPT ![b].in_use = TRUE,
                             ![b].generation = current_generation]

\* BlockOps::try_acquire: the state word after fetch_or(IN_USE_FLAG)
TryAcquire(b) == blocks' = [blocks EXCEPT ![b].in_use = TRUE]

\* a release that leaves the state word as it is
ReleaseNoop(b) == UNCHANGED blocks

\* BlockOps::release: fetch_and(!IN_USE_FLAG)
Release(b) == blocks' = [blocks EXCEPT ![b].in_use = FALSE]

\* BlockOps::generation: the state word without the two flag bits
Generation(b) == blocks[b].generation

\* the SizePool (index + 1) a request or block size maps to; callers check .ok first
PoolOf(size) == GetSizePool(config, size).index + 1

\* pool.block_size of that SizePool: actual_size in allocate_with_generation
ActualSize(size) == CreateSizePools(config)[PoolOf(size)]

\* no block of the size class / size pool of a request is waiting in a queue
QueuesEmptyFor(size) ==
    /\ GetSizeClassIndex(size) # NoClass =>
          /\ hot_queue[GetSizeClassIndex(size)] = <<>>
          /\ cold_queue[GetSizeClassIndex(size)] = <<>>
    /\ GetSizePool(config, size).ok => free_blocks[PoolOf(size)] = <<>>

\* AtomAllocStats::record_cache_miss: cache_misses.fetch_add(1)
RecordCacheMiss(st) == [st EXCEPT !.cache_misses = WrappingAdd(@, 1)]

\* AtomAllocStats::record_cache_hit: cache_hits.fetch_add(1)
RecordCacheHit(st) == [st EXCEPT !.cache_hits = WrappingAdd(@, 1)]

\* AtomAllocStats::record_allocation: both fetch_adds
RecordAllocation(st, size) ==
    [st EXCEPT !.total_allocated = WrappingAdd(@, size),
               !.current_allocated = WrappingAdd(@, size)]

\* AtomAllocStats::record_deallocation: fetch_add on freed, fetch_sub on current
RecordDeallocation(st, size) ==
    [st EXCEPT !.total_freed = WrappingAdd(@, size),
               !.current_allocated = WrappingSub(@, size)]

\* the println of record_allocation adds size to both previous values: an
\* overflow there panics in a build with overflow checks
AllocationPrintOverflows(st, size) ==
    \/ st.total_allocated + size >= UsizeModulus
    \/ st.current_allocated + size >= UsizeModulus

\* the println of record_deallocation computes prev_freed + size and
\* prev_current - size
DeallocationPrintOverflows(st, size) ==
    \/ st.total_freed + size >= UsizeModulus
    \/ st.current_allocated < size

\* an allocate that goes back to the budget check after an error and tries
\* again until it gets a block
FailTaskSpin(t, e) == [task[t] EXCEPT !.pc = "pool_load", !.retry = TRUE]

\* where an allocate is after cache.allocate or the pool returned an error.
\* The first error sends AtomAlloc::allocate into its Err(_) arm, which records
\* a cache miss and stands at the yield of record_cache_miss; the second error
\* is what the caller gets.  Gives the task record and the statistics.
FailTask(t, e) ==
    IF task[t].retry
    THEN [task[t] EXCEPT !.pc = "ret_alloc", !.err = e, !.blk = NoBlock]
    ELSE [task[t] EXCEPT !.pc = "new_gen", !.retry = TRUE, !.blk = NoBlock,
                         !.misses = @ + 1]

FailStats(t, st) == IF task[t].retry THEN st ELSE RecordCacheMiss(st)

\* where an allocate is once a block has been obtained: a block from
\* cache.allocate is verified and counted as a hit by AtomAlloc::allocate, a
\* block from the pool call of the Err(_) arm is returned as it is
OkPc(t) == IF task[t].retry THEN "ret_alloc" ELSE "verify"

\* ------------------------------------------------------------------ history

TrackAllocStart(s) ==
    IF ~workload.track THEN reuse
    ELSE IF reuse.phase = 4 /\ reuse.size = s
    THEN [reuse EXCEPT !.phase = 5, !.nextempty = QueuesEmptyFor(s)]
    ELSE IF Quiescent
    THEN [NoReuse EXCEPT !.phase = 1, !.size = s, !.empty = QueuesEmptyFor(s)]
    ELSE NoReuse

TrackAllocReturn(t) ==
    IF ~workload.track \/ reuse.phase \notin {1, 5} THEN reuse
    ELSE IF task[t].err # "none" THEN NoReuse
    ELSE IF reuse.phase = 1
    THEN [reuse EXCEPT !.phase = 2, !.blk = task[t].blk,
                       !.gen = Generation(task[t].blk)]
    ELSE [reuse EXCEPT !.phase = 6, !.blk2 = task[t].blk,
                       !.gen2 = Generation(task[t].blk)]

TrackDeallocStart(b) ==
    IF ~workload.track THEN reuse
    ELSE IF reuse.phase = 2 /\ reuse.blk = b THEN [reuse EXCEPT !.phase = 3]
    ELSE IF reuse.phase = 6 /\ reuse.blk2 = b
    THEN [NoReuse EXCEPT !.phase = 3, !.size = reuse.size, !.blk = b,
                         !.gen = reuse.gen2, !.empty = reuse.nextempty]
    ELSE NoReuse

TrackDeallocReturn ==
    IF workload.track /\ reuse.phase = 3 THEN [reuse EXCEPT !.phase = 4] ELSE reuse


cacheVars == <<hot_queue, cold_queue, allocation_count>>
poolVars == <<free_blocks, allocated_blocks, total_blocks, total_memory>>
histVars == <<issued, reuse, returned>>
callerVars == <<budget, held>>

\* ------------------------------------------------------------------ allocate

\* AtomAlloc::allocate is called and BlockCache::allocate picks the size class;
\* a size without a class is a cache miss at once
AllocStart(t) ==
    /\ task[t].pc = "idle"
    /\ budget[t].allocs > 0
    /\ \E size \in workload.sizes :
          /\ IF GetSizeClassIndex(size) # NoClass
             THEN /\ Set(t, [IdleTask EXCEPT !.pc = "hot", !.size = size])
                  /\ UNCHANGED stats
             ELSE /\ Set(t, [IdleTask EXCEPT !.pc = "new_gen", !.size = size,
                                              !.misses = 1])
                  /\ stats' = RecordCacheMiss(stats)
          /\ reuse' = TrackAllocStart(size)
    /\ budget' = [budget EXCEPT ![t].allocs = @ - 1]
    /\ UNCHANGED <<envVars, blocks, cacheVars, poolVars, current_generation,
                   held, issued, returned>>

\* SizeClass::get_block: one of the two attempts on the hot queue, a pop and,
\* for a block of the class's size, try_acquire
GetBlockHot(t) ==
    /\ task[t].pc = "hot"
    /\ LET c == GetSizeClassIndex(task[t].size)
           b == QueueHead(hot_queue[c])
       IN /\ hot_queue' = [hot_queue EXCEPT ![c] = QueueRest(@)]
          /\ IF b # NoBlock /\ blocks[b].size = ClassSize(c)
             THEN /\ TryAcquire(b)
                  /\ IF TryAcquireResult(b)
                     THEN Set(t, [task[t] EXCEPT !.pc = "count", !.blk = b,
                                                 !.attempt = 0, !.changed = TRUE])
                     ELSE Set(t, [task[t] EXCEPT
                                    !.pc = IF task[t].attempt + 1 < 2
                                           THEN "hot" ELSE "cold",
                                    !.attempt = @ + 1, !.changed = TRUE])
             ELSE /\ Set(t, [task[t] EXCEPT
                               !.pc = IF task[t].attempt + 1 < 2
                                      THEN "hot" ELSE "cold",
                               !.attempt = @ + 1,
                               !.changed = @ \/ b # NoBlock])
                  /\ UNCHANGED blocks
    /\ UNCHANGED <<envVars, cold_queue, allocation_count, poolVars,
                   current_generation, stats, callerVars, histVars>>

\* SizeClass::get_block: the single attempt on the cold queue; without a block
\* BlockCache::allocate records the cache miss
GetBlockCold(t) ==
    /\ task[t].pc = "cold"
    /\ LET c == GetSizeClassIndex(task[t].size)
           b == QueueHead(cold_queue[c])
           miss == [task[t] EXCEPT !.pc = "new_gen", !.attempt = 0,
                                   !.misses = @ + 1,
                                   !.changed = @ \/ b # NoBlock]
       IN /\ cold_queue' = [cold_queue EXCEPT ![c] = QueueRest(@)]
          /\ IF b # NoBlock /\ blocks[b].size = ClassSize(c)
             THEN /\ TryAcquire(b)
                  /\ IF TryAcquireResult(b)
                     THEN /\ Set(t, [task[t] EXCEPT !.pc = "count", !.blk = b,
                                                    !.attempt = 0,
                                                    !.changed = TRUE])
                          /\ UNCHANGED stats
                     ELSE /\ Set(t, miss)
                          /\ stats' = RecordCacheMiss(stats)
             ELSE /\ Set(t, miss)
                  /\ stats' = RecordCacheMiss(stats)
                  /\ UNCHANGED blocks
    /\ UNCHANGED <<envVars, hot_queue, allocation_count, poolVars,
                   current_generation, callerVars, histVars>>

\* SizeClass::get_block: allocation_count.fetch_add(1) after the acquire; then
\* BlockCache::allocate records the allocation and a cache hit
CountAllocation(t) ==
    /\ task[t].pc = "count"
    /\ LET size == blocks[task[t].blk].size IN
          /\ allocation_count' =
                [allocation_count EXCEPT ![GetSizeClassIndex(task[t].size)] =
                    WrappingAdd(@, 1)]
          /\ \/ /\ AllocationPrintOverflows(stats, size)
                /\ stats' = RecordAllocation(stats, size)
                /\ Set(t, Panicked)
             \/ /\ stats' = RecordCacheHit(RecordAllocation(stats, size))
                /\ Set(t, [task[t] EXCEPT !.pc = "verify", !.path = "hit",
                                          !.contrib = @ + size,
                                          !.hits = @ + 1])
    /\ UNCHANGED <<envVars, blocks, hot_queue, cold_queue, poolVars,
                   current_generation, callerVars, histVars>>

\* BlockManager::new_generation: fetch_add(1) returns the value before the add
NewGenerationValue == current_generation

\* a new_generation that loads the counter and never advances it
NextGenerationStuck(g) == g

\* BlockManager::new_generation: the counter after fetch_add(1)
NextGeneration(g) == g + 1

\* BlockManager::new_generation, then allocate_with_generation up to its
\* first shared access: the two size checks
NewGeneration(t) ==
    /\ task[t].pc = "new_gen"
    /\ current_generation' = NextGeneration(current_generation)
    /\ issued' = Append(issued, NewGenerationValue)
    /\ IF NextPowerOfTwo(task[t].size) > config.max_block_size
       THEN /\ Set(t, FailTask(t, "OutOfMemory"))
            /\ stats' = FailStats(t, stats)
       ELSE IF ~GetSizePool(config, task[t].size).ok
       THEN /\ Set(t, FailTask(t, "InvalidSize"))
            /\ stats' = FailStats(t, stats)
       ELSE /\ Set(t, [task[t] EXCEPT !.pc = "pool_load",
                                      !.generation = NewGenerationValue])
            /\ UNCHANGED stats
    /\ UNCHANGED <<envVars, blocks, cacheVars, poolVars, callerVars, reuse,
                   returned>>

\* ------------------------------------------------------------------ pool allocate

\* the budget test of allocate_with_generation on a snapshot of total_memory
WithinBudget(current_total, actual_size) ==
    ~((current_total + actual_size) % UsizeModulus > EffectiveMax(config))

\* allocate_with_generation: total_memory.load, then the effective_max check;
\* when current_total + actual_size overflows, a build with overflow checks
\* panics and a build without them compares the wrapped sum
PoolLoad(t) ==
    /\ task[t].pc = "pool_load"
    /\ LET actual_size == ActualSize(task[t].size) IN
          \/ /\ total_memory + actual_size >= UsizeModulus
             /\ Set(t, Panicked)
             /\ UNCHANGED stats
          \/ IF ~WithinBudget(total_memory, actual_size)
             THEN /\ Set(t, FailTask(t, "OutOfMemory"))
                  /\ stats' = FailStats(t, stats)
             ELSE /\ Set(t, [task[t] EXCEPT !.pc = "pool_pop",
                                            !.current_total = total_memory])
                  /\ UNCHANGED stats
    /\ UNCHANGED <<envVars, blocks, cacheVars, poolVars, current_generation,
                   callerVars, histVars>>

\* allocate_with_generation: pool.get_free_block() and try_acquire; a reused
\* block bumps allocated_blocks and is returned, with no allocation recorded
\* and total_memory left alone
PoolPop(t) ==
    /\ task[t].pc = "pool_pop"
    /\ LET p == PoolOf(task[t].size)
           b == QueueHead(free_blocks[p])
       IN /\ free_blocks' = [free_blocks EXCEPT ![p] = QueueRest(@)]
          /\ IF b # NoBlock
             THEN /\ TryAcquire(b)
                  /\ IF TryAcquireResult(b)
                     THEN /\ allocated_blocks' =
                                [allocated_blocks EXCEPT ![p] = WrappingAdd(@, 1)]
                          /\ Set(t, [task[t] EXCEPT !.pc = OkPc(t), !.blk = b,
                                                    !.path = "reuse",
                                                    !.changed = TRUE])
                     ELSE /\ Set(t, [task[t] EXCEPT !.pc = "pool_cas",
                                                    !.changed = TRUE])
                          /\ UNCHANGED allocated_blocks
             ELSE /\ Set(t, [task[t] EXCEPT !.pc = "pool_cas"])
                  /\ UNCHANGED <<blocks, allocated_blocks>>
    /\ UNCHANGED <<envVars, cacheVars, total_blocks, total_memory,
                   current_generation, stats, callerVars, histVars>>

\* the outcome of total_memory.compare_exchange(current_total, new_total)
CasSucceeds(t) == total_memory = task[t].current_total

\* allocate_with_generation: the one-shot compare_exchange; on success
\* Block::new(actual_size, generation), record_allocation and the two pool
\* counters, on failure OutOfMemory
PoolCas(t) ==
    /\ task[t].pc = "pool_cas"
    /\ LET actual_size == ActualSize(task[t].size)
           p == PoolOf(task[t].size)
       IN IF CasSucceeds(t)
          THEN /\ total_memory' =
                     (task[t].current_total + actual_size) % UsizeModulus
               /\ blocks' = Append(blocks, NewBlock(actual_size, task[t].generation))
               /\ stats' = RecordAllocation(stats, actual_size)
               /\ \/ /\ AllocationPrintOverflows(stats, actual_size)
                     /\ Set(t, Panicked)
                     /\ UNCHANGED <<total_blocks, allocated_blocks>>
                  \/ /\ total_blocks' = [total_blocks EXCEPT ![p] = WrappingAdd(@, 1)]
                     /\ allocated_blocks' =
                           [allocated_blocks EXCEPT ![p] = WrappingAdd(@, 1)]
                     /\ Set(t, [task[t] EXCEPT !.pc = OkPc(t), !.path = "fresh",
                                               !.blk = Len(blocks) + 1,
                                               !.contrib = @ + actual_size,
                                               !.changed = TRUE])
          ELSE /\ Set(t, FailTask(t, "OutOfMemory"))
               /\ stats' = FailStats(t, stats)
               /\ UNCHANGED <<total_memory, blocks, total_blocks, allocated_blocks>>
    /\ UNCHANGED <<envVars, cacheVars, free_blocks, current_generation,
                   callerVars, histVars>>

\* ------------------------------------------------------------------ facade

\* a verify_generation whose comparison is the wrong way round
GenerationOkInverted(b) ==
    ~config.zero_on_dealloc \/ Generation(b) > current_generation

\* BlockManager::verify_generation passes: always without zero_on_dealloc, else
\* when the block's generation is at most current_generation
GenerationOk(b) ==
    ~config.zero_on_dealloc \/ ~(Generation(b) > current_generation)

\* AtomAlloc::allocate, Ok arm: verify_generation, then record_cache_hit for
\* whatever cache.allocate gave
VerifyGeneration(t) ==
    /\ task[t].pc = "verify"
    /\ IF GenerationOk(task[t].blk)
       THEN /\ Set(t, [task[t] EXCEPT !.pc = "ret_alloc", !.hits = @ + 1])
            /\ stats' = RecordCacheHit(stats)
       ELSE /\ Set(t, [task[t] EXCEPT !.pc = "ret_alloc",
                                      !.err = "InvalidGeneration", !.blk = NoBlock])
            /\ UNCHANGED stats
    /\ UNCHANGED <<envVars, blocks, cacheVars, poolVars, current_generation,
                   callerVars, histVars>>

\* AtomAlloc::allocate returns: the caller gets the block or the error
ReturnAlloc(t) ==
    /\ task[t].pc = "ret_alloc"
    /\ held' = IF task[t].err = "none"
               THEN [held EXCEPT ![t] = @ \cup {task[t].blk}] ELSE held
    /\ reuse' = TrackAllocReturn(t)
    /\ Set(t, IdleTask)
    /\ UNCHANGED <<envVars, blocks, cacheVars, poolVars, current_generation,
                   stats, budget, issued, returned>>

\* ------------------------------------------------------------------ deallocate

\* BlockCache::deallocate after release and zero_block: the size class of the
\* block, else MemoryPool::deallocate, which does nothing without a SizePool
RoutePc(size) ==
    IF GetSizeClassIndex(size) # NoClass THEN "return_load"
    ELSE IF GetSizePool(config, size).ok THEN "pool_sub"
    ELSE "ret_dealloc"

\* AtomAlloc::deallocate is called with a block the caller holds:
\* BlockCache::deallocate reads its size and releases it
DeallocStart(t) ==
    /\ task[t].pc = "idle"
    /\ \E b \in held[t] :
          /\ held' = [held EXCEPT ![t] = @ \ {b}]
          /\ Release(b)
          /\ reuse' = TrackDeallocStart(b)
          /\ Set(t, [IdleTask EXCEPT
                       !.pc = IF config.zero_on_dealloc THEN "clear"
                              ELSE RoutePc(blocks[b].size),
                       !.blk = b, !.size = blocks[b].size])
    /\ UNCHANGED <<envVars, cacheVars, poolVars, current_generation, stats,
                   budget, issued, returned>>

\* a clear whose stores miss the first chunk of the block
ClearedDataSkipFirst(data, i) == data \ {i + 1}

\* Block::clear: the bytes after chunk i has been stored with zeros
ClearedData(data, i) == data \ {i}

\* Block::clear: one chunk of zero stores, then the yield
ClearChunk(t) ==
    /\ task[t].pc = "clear"
    /\ blocks' = [blocks EXCEPT ![task[t].blk].data = ClearedData(@, task[t].i)]
    /\ IF task[t].i + 1 < NumChunks(task[t].size)
       THEN Set(t, [task[t] EXCEPT !.i = @ + 1])
       ELSE Set(t, [task[t] EXCEPT !.pc = RoutePc(task[t].size), !.i = 0])
    /\ UNCHANGED <<envVars, cacheVars, poolVars, current_generation, stats,
                   callerVars, histVars>>

\* Block::clear ends with state.fetch_or(ZEROED_FLAG) when zero_block ran it
AfterZeroBlock(b) ==
    IF config.zero_on_dealloc THEN [blocks EXCEPT ![b].zeroed = TRUE] ELSE blocks

\* the end of zero_block, then SizeClass::return_block: allocation_count.load
\* and the size check, which panics on a block of another size
ReturnLoad(t) ==
    /\ task[t].pc = "return_load"
    /\ blocks' = AfterZeroBlock(task[t].blk)
    /\ LET c == GetSizeClassIndex(task[t].size) IN
          IF blocks[task[t].blk].size # ClassSize(c)
          THEN Set(t, Panicked)
          ELSE Set(t, [task[t] EXCEPT !.pc = "return_push",
                                      !.alloc_count = allocation_count[c]])
    /\ UNCHANGED <<envVars, cacheVars, poolVars, current_generation, stats,
                   callerVars, histVars>>

\* a return_block that tests alloc_count & 1
PromoteToHotEverySecond(alloc_count) == alloc_count % 2 = 0

\* SizeClass::return_block: alloc_count & 7 == 0 selects the hot queue
PromoteToHot(alloc_count) == alloc_count % 8 = 0

\* the history of return_block calls after one more push on class c: the
\* allocation_count the call had loaded and the queue that has grown
TrackReturn(t, c) ==
    IF ~workload.log THEN returned
    ELSE Append(returned, [class |-> c, count |-> task[t].alloc_count,
                           hot |-> Len(hot_queue'[c]) > Len(hot_queue[c])])

\* SizeClass::return_block: the push to the hot or the cold queue; then
\* BlockCache::deallocate records the deallocation
ReturnPush(t) ==
    /\ task[t].pc = "return_push"
    /\ LET c == GetSizeClassIndex(task[t].size) IN
          /\ IF PromoteToHot(task[t].alloc_count)
             THEN /\ hot_queue' = [hot_queue EXCEPT ![c] = Append(@, task[t].blk)]
                  /\ UNCHANGED cold_queue
             ELSE /\ cold_queue' = [cold_queue EXCEPT ![c] = Append(@, task[t].blk)]
                  /\ UNCHANGED hot_queue
          /\ returned' = TrackReturn(t, c)
    /\ stats' = RecordDeallocation(stats, task[t].size)
    /\ \/ /\ DeallocationPrintOverflows(stats, task[t].size)
          /\ Set(t, Panicked)
       \/ Set(t, [task[t] EXCEPT !.pc = "ret_dealloc", !.path = "cache",
                                 !.blk = NoBlock, !.contrib = @ + task[t].size])
    /\ UNCHANGED <<envVars, blocks, allocation_count, poolVars, current_generation,
                   callerVars, issued, reuse>>

\* the end of zero_block, then MemoryPool::deallocate: total_memory.fetch_sub(size),
\* the println whose old_total - size overflows when the counter wraps (a build
\* with overflow checks panics there), and block.release()
PoolSub(t) ==
    /\ task[t].pc = "pool_sub"
    /\ total_memory' = WrappingSub(total_memory, task[t].size)
    /\ \/ /\ total_memory < task[t].size
          /\ blocks' = AfterZeroBlock(task[t].blk)
          /\ Set(t, Panicked)
       \/ /\ blocks' = [AfterZeroBlock(task[t].blk) EXCEPT ![task[t].blk].in_use = FALSE]
          /\ Set(t, [task[t] EXCEPT !.pc = "pool_push"])
    /\ UNCHANGED <<envVars, cacheVars, free_blocks, allocated_blocks,
                   total_blocks, current_generation, stats, callerVars, histVars>>

\* MemoryPool::deallocate: pool.push_free_block(block), record_deallocation and
\* allocated_blocks.fetch_sub(1)
PoolPush(t) ==
    /\ task[t].pc = "pool_push"
    /\ LET p == PoolOf(task[t].size) IN
          /\ free_blocks' = [free_blocks EXCEPT ![p] = Append(@, task[t].blk)]
          /\ stats' = RecordDeallocation(stats, task[t].size)
          /\ \/ /\ DeallocationPrintOverflows(stats, task[t].size)
                /\ Set(t, Panicked)
                /\ UNCHANGED allocated_blocks
             \/ /\ allocated_blocks' =
                      [allocated_blocks EXCEPT ![p] = WrappingSub(@, 1)]
                /\ Set(t, [task[t] EXCEPT !.pc = "ret_dealloc", !.path = "pool",
                                          !.blk = NoBlock,
                                          !.contrib = @ + task[t].size])
    /\ UNCHANGED <<envVars, blocks, cacheVars, total_blocks, total_memory,
                   current_generation, callerVars, histVars>>

\* AtomAlloc::deallocate returns
ReturnDealloc(t) ==
    /\ task[t].pc = "ret_dealloc"
    /\ reuse' = TrackDeallocReturn
    /\ Set(t, IdleTask)
    /\ UNCHANGED <<envVars, blocks, cacheVars, poolVars, current_generation,
                   stats, callerVars, issued, returned>>

\* ------------------------------------------------------------------ write

\* the 1024-byte regions of the block that chunk i of a write stores into
WriteRegions(off, len, i) ==
    { r \in 0 .. ((off + len) \div CHUNK_SIZE) :
         /\ r * CHUNK_SIZE < off + Min((i + 1) * CHUNK_SIZE, len)
         /\ (r + 1) * CHUNK_SIZE > off + i * CHUNK_SIZE }

\* Block::write is called by the holder: the bounds check, which fails with
\* OutOfBounds and changes nothing, else the chunk loop
WriteStart(t) ==
    /\ task[t].pc = "idle"
    /\ budget[t].writes > 0
    /\ \E b \in held[t], w \in workload.writes :
          IF w.off + w.len > blocks[b].size
          THEN UNCHANGED task
          ELSE Set(t, [IdleTask EXCEPT
                         !.pc = IF w.len > 0 THEN "write_store" ELSE "write_flag",
                         !.blk = b, !.size = blocks[b].size,
                         !.off = w.off, !.len = w.len])
    /\ budget' = [budget EXCEPT ![t].writes = @ - 1]
    /\ reuse' = IF workload.track THEN NoReuse ELSE reuse
    /\ UNCHANGED <<envVars, blocks, cacheVars, poolVars, current_generation,
                   stats, held, issued, returned>>

\* Block::write: one chunk of (non-zero) byte stores, then the yield
WriteStore(t) ==
    /\ task[t].pc = "write_store"
    /\ blocks' = [blocks EXCEPT
                    ![task[t].blk].data =
                        @ \cup WriteRegions(task[t].off, task[t].len, task[t].i),
                    ![task[t].blk].wrote = TRUE]
    /\ IF (task[t].i + 1) * CHUNK_SIZE < task[t].len
       THEN Set(t, [task[t] EXCEPT !.i = @ + 1])
       ELSE Set(t, [task[t] EXCEPT !.pc = "write_flag", !.i = 0])
    /\ UNCHANGED <<envVars, cacheVars, poolVars, current_generation, stats,
                   callerVars, histVars>>

\* Block::write: state.fetch_and(!ZEROED_FLAG), and the write returns Ok
WriteFlag(t) ==
    /\ task[t].pc = "write_flag"
    /\ blocks' = [blocks EXCEPT ![task[t].blk].zeroed = FALSE]
    /\ Set(t, IdleTask)
    /\ UNCHANGED <<envVars, cacheVars, poolVars, current_generation, stats,
                   callerVars, histVars>>

\* ------------------------------------------------------------------ cancellation

\* a task whose allocate future was dropped: its locals, a block among them,
\* are gone and it never runs again
Cancelled == [IdleTask EXCEPT !.pc = "cancelled"]

\* the positions at which an allocate is suspended in a yield_now: inside
\* record_cache_miss (of BlockCache::allocate or of the Err arm), inside the
\* record_cache_hit of BlockCache::allocate after a queue hit, and inside the
\* record_cache_hit of the Ok arm of AtomAlloc::allocate
AtYield(t) ==
    \/ task[t].pc = "new_gen"
    \/ task[t].pc = "verify" /\ task[t].path = "hit"
    \/ task[t].pc = "ret_alloc" /\ ~task[t].retry /\ task[t].err = "none"

\* the future of an allocate is dropped while it is suspended
CancelAllocate(t) ==
    /\ AtYield(t)
    /\ Set(t, Cancelled)
    /\ UNCHANGED <<envVars, blocks, cacheVars, poolVars, current_generation,
                   stats, callerVars, histVars>>

\* ------------------------------------------------------------------ block handles

\* a task that shares a handle (a clone of the Pin<Arc<Block>>) on block b
\* calls BlockOps::try_acquire on it: one fetch_or.  held records the blocks a
\* task has acquired with no release since
BlockTryAcquire(t) ==
    /\ task[t].pc = "idle"
    /\ budget[t].acquires > 0
    /\ \E b \in BlockIds :
          /\ TryAcquire(b)
          /\ Set(t, [IdleTask EXCEPT !.path = "try_acquire", !.blk = b,
                                     !.acquired = TryAcquireResult(b),
                                     !.was_in_use = blocks[b].in_use])
          /\ held' = IF TryAcquireResult(b)
                     THEN [held EXCEPT ![t] = @ \cup {b}] ELSE held
    /\ budget' = [budget EXCEPT ![t].acquires = @ - 1]
    /\ UNCHANGED <<envVars, cacheVars, poolVars, current_generation, stats,
                   histVars>>

\* a task calls BlockOps::release on a shared block: one fetch_and, whoever
\* acquired the block
BlockRelease(t) ==
    /\ task[t].pc = "idle"
    /\ budget[t].releases > 0
    /\ \E b \in BlockIds :
          /\ Release(b)
          /\ Set(t, [IdleTask EXCEPT !.path = "release", !.blk = b])
          /\ held' = [u \in Tasks |-> held[u] \ {b}]
    /\ budget' = [budget EXCEPT ![t].releases = @ - 1]
    /\ UNCHANGED <<envVars, cacheVars, poolVars, current_generation, stats,
                   histVars>>

\* ------------------------------------------------------------------ specifications

\* the shape of AtomAllocConfig::get_default_for_tests (min_block_size 64), with
\* a budget of three 64-byte blocks
SmallConfig ==
    [max_memory |-> 256, max_block_size |-> 128, min_block_size |-> 64,
     initial_pool_size |-> 64, zero_on_dealloc |-> TRUE]

\* blocks above the largest cache class (8192), as AtomAllocConfig::default allows
LargeConfig ==
    [max_memory |-> 32768, max_block_size |-> 16384, min_block_size |-> 16384,
     initial_pool_size |-> 16384, zero_on_dealloc |-> TRUE]

\* a valid configuration whose min_block_size is below the smallest cache class
TinyConfig ==
    [max_memory |-> 64, max_block_size |-> 32, min_block_size |-> 16,
     initial_pool_size |-> 16, zero_on_dealloc |-> TRUE]

Configs == {SmallConfig, LargeConfig, TinyConfig}

\* the requests the callers make under a configuration
WorkloadFor(cfg) ==
    IF cfg = SmallConfig
    THEN [sizes |-> {64, 65}, writes |-> {[off |-> 0, len |-> 8]},
          track |-> FALSE, log |-> FALSE]
    ELSE IF cfg = LargeConfig
    THEN [sizes |-> {16384}, writes |-> {[off |-> 1024, len |-> 1500]},
          track |-> FALSE, log |-> FALSE]
    ELSE [sizes |-> {16, 32}, writes |-> {[off |-> 0, len |-> 8]},
          track |-> FALSE, log |-> FALSE]

\* two callers under every configuration: one with MaxAllocs allocate calls
\* and MaxWrites writes, one with a single allocate call less and no write
Init ==
    /\ \E cfg \in Configs :
          /\ Validate(cfg)
          /\ InitAllocator(cfg)
          /\ workload = WorkloadFor(cfg)
    /\ budget = [t \in Tasks |->
                   IF t = "t1" THEN [allocs |-> MaxAllocs, writes |-> MaxWrites]
                   ELSE IF t = "t2" THEN [allocs |-> MaxAllocs - 1, writes |-> 0]
                   ELSE [allocs |-> 0, writes |-> 0]]

\* the same two callers with one more allocate call for the first, and the
\* history of allocate; deallocate; allocate runs recorded
InitReuse ==
    /\ \E cfg \in {SmallConfig, LargeConfig} :
          /\ Validate(cfg)
          /\ InitAllocator(cfg)
          /\ workload = [WorkloadFor(cfg) EXCEPT
                            !.track = TRUE,
                            !.sizes = {cfg.min_block_size}]
    /\ budget = [t \in Tasks |->
                   IF t = "t1" THEN [allocs |-> MaxAllocs + 1, writes |-> MaxWrites]
                   ELSE IF t = "t2" THEN [allocs |-> MaxAllocs - 1, writes |-> 0]
                   ELSE [allocs |-> 0, writes |-> 0]]

Next ==
    \E t \in Tasks :
        \/ AllocStart(t)
        \/ GetBlockHot(t)
        \/ GetBlockCold(t)
        \/ CountAllocation(t)
        \/ NewGeneration(t)
        \/ PoolLoad(t)
        \/ PoolPop(t)
        \/ PoolCas(t)
        \/ VerifyGeneration(t)
        \/ ReturnAlloc(t)
        \/ DeallocStart(t)
        \/ ClearChunk(t)
        \/ ReturnLoad(t)
        \/ ReturnPush(t)
        \/ PoolSub(t)
        \/ PoolPush(t)
        \/ ReturnDealloc(t)
        \/ WriteStart(t)
        \/ WriteStore(t)
        \/ WriteFlag(t)

\* the callers of test_concurrent_allocations: every task allocates 64 bytes
\* once and deallocates, on an allocator whose effective budget holds one
\* 64-byte block per task
InitConcurrent ==
    /\ InitAllocator(SmallConfig)
    /\ EffectiveMax(SmallConfig) >= Cardinality(Tasks) * 64
    /\ workload = [sizes |-> {64}, writes |-> {}, track |-> FALSE, log |-> FALSE]
    /\ budget = [t \in Tasks |-> [allocs |-> 1, writes |-> 0]]

NextConcurrent ==
    \E t \in Tasks :
        \/ AllocStart(t)
        \/ GetBlockHot(t)
        \/ GetBlockCold(t)
        \/ CountAllocation(t)
        \/ NewGeneration(t)
        \/ PoolLoad(t)
        \/ PoolPop(t)
        \/ PoolCas(t)
        \/ VerifyGeneration(t)
        \/ ReturnAlloc(t)
        \/ DeallocStart(t)
        \/ ClearChunk(t)
        \/ ReturnLoad(t)
        \/ ReturnPush(t)
        \/ ReturnDealloc(t)

\* a valid configuration whose smallest block is the smallest cache class and
\* whose largest block is the next one, with a budget of three 32-byte blocks
EdgeConfig ==
    [max_memory |-> 128, max_block_size |-> 64, min_block_size |-> 32,
     initial_pool_size |-> 32, zero_on_dealloc |-> TRUE]

\* requests at and beyond both ends of the configured block sizes: below
\* min_block_size (16 under EdgeConfig), the two block sizes, and above
\* max_block_size (65 under EdgeConfig, 16385 under LargeConfig)
EdgeWorkloadFor(cfg) ==
    IF cfg = EdgeConfig
    THEN [sizes |-> {16, 32, 64, 65}, writes |-> {[off |-> 0, len |-> 8]},
          track |-> FALSE, log |-> FALSE]
    ELSE [sizes |-> {16384, 16385}, writes |-> {[off |-> 1024, len |-> 1500]},
          track |-> FALSE, log |-> FALSE]

\* the two callers of Init, with requests the allocator has to reject
InitErrors ==
    /\ \E cfg \in {EdgeConfig, LargeConfig} :
          /\ Validate(cfg)
          /\ InitAllocator(cfg)
          /\ workload = EdgeWorkloadFor(cfg)
    /\ budget = [t \in Tasks |->
                   IF t = "t1" THEN [allocs |-> MaxAllocs, writes |-> MaxWrites]
                   ELSE IF t = "t2" THEN [allocs |-> MaxAllocs - 1, writes |-> 0]
                   ELSE [allocs |-> 0, writes |-> 0]]

\* sequential runs as in test_strict_memory_limits: the callers of Init under
\* SmallConfig, with the history of allocate; deallocate; allocate runs recorded
InitRecovery ==
    /\ InitAllocator(SmallConfig)
    /\ workload = [sizes |-> {64, 65}, writes |-> {}, track |-> TRUE, log |-> FALSE]
    /\ budget = [t \in Tasks |->
                   IF t = "t1" THEN [allocs |-> MaxAllocs, writes |-> 0]
                   ELSE IF t = "t2" THEN [allocs |-> MaxAllocs - 1, writes |-> 0]
                   ELSE [allocs |-> 0, writes |-> 0]]

\* two blocks fresh from Block::new, each task with a handle on both
InitBlock ==
    /\ config = SmallConfig
    /\ workload = [sizes |-> {}, writes |-> {}, track |-> FALSE, log |-> FALSE]
    /\ blocks = <<NewBlock(64, 0), NewBlock(64, 1)>>
    /\ hot_queue = [c \in ClassIdx |-> <<>>]
    /\ cold_queue = [c \in ClassIdx |-> <<>>]
    /\ allocation_count = [c \in ClassIdx |-> 0]
    /\ free_blocks = [p \in 1 .. Len(CreateSizePools(SmallConfig)) |-> <<>>]
    /\ allocated_blocks = [p \in 1 .. Len(CreateSizePools(SmallConfig)) |-> 0]
    /\ total_blocks = [p \in 1 .. Len(CreateSizePools(SmallConfig)) |-> 0]
    /\ total_memory = 0
    /\ current_generation = 2
    /\ stats = NewStats
    /\ task = [t \in Tasks |-> IdleTask]
    /\ held = [t \in Tasks |-> {}]
    /\ issued = <<>>
    /\ reuse = NoReuse
    /\ returned = <<>>
    /\ budget = [t \in Tasks |->
                   [allocs |-> 0, writes |-> 0,
                    acquires |-> MaxAcquires, releases |-> MaxReleases]]

NextBlock ==
    \E t \in Tasks :
        \/ BlockTryAcquire(t)
        \/ BlockRelease(t)

\* the callers of Init under SmallConfig, asking for 64 bytes; an allocate
\* may be dropped at any of its suspension points
InitCancel ==
    /\ InitAllocator(SmallConfig)
    /\ workload = [sizes |-> {64}, writes |-> {}, track |-> FALSE, log |-> FALSE]
    /\ budget = [t \in Tasks |->
                   IF t = "t1" THEN [allocs |-> MaxAllocs, writes |-> 0]
                   ELSE IF t = "t2" THEN [allocs |-> MaxAllocs - 1, writes |-> 0]
                   ELSE [allocs |-> 0, writes |-> 0]]

NextCancel ==
    \E t \in Tasks :
        \/ AllocStart(t)
        \/ GetBlockHot(t)
        \/ GetBlockCold(t)
        \/ CountAllocation(t)
        \/ NewGeneration(t)
        \/ PoolLoad(t)
        \/ PoolPop(t)
        \/ PoolCas(t)
        \/ VerifyGeneration(t)
        \/ ReturnAlloc(t)
        \/ DeallocStart(t)
        \/ ClearChunk(t)
        \/ ReturnLoad(t)
        \/ ReturnPush(t)
        \/ ReturnDealloc(t)
        \/ CancelAllocate(t)

Spec == Init /\ [][Next]_vars

\* the steps of the operation task t is in: every step but the calls
\* themselves.  No step awaits anything but yield_now, so the future of a
\* running operation is always ready to be polled again
Continue(t) ==
    \/ GetBlockHot(t) \/ GetBlockCold(t) \/ CountAllocation(t)
    \/ NewGeneration(t) \/ PoolLoad(t) \/ PoolPop(t) \/ PoolCas(t)
    \/ VerifyGeneration(t) \/ ReturnAlloc(t)
    \/ ClearChunk(t) \/ ReturnLoad(t) \/ ReturnPush(t)
    \/ PoolSub(t) \/ PoolPush(t) \/ ReturnDealloc(t)
    \/ WriteStore(t) \/ WriteFlag(t)

\* two callers with one allocate call each, one of them with MaxWrites
\* writes, on an allocator of cached blocks and on one of pool blocks
InitFair ==
    /\ \E cfg \in {SmallConfig, LargeConfig} :
          /\ Validate(cfg)
          /\ InitAllocator(cfg)
          /\ workload = [WorkloadFor(cfg) EXCEPT !.sizes = {cfg.min_block_size}]
    /\ budget = [t \in Tasks |->
                   IF t = "t1" THEN [allocs |-> 1, writes |-> MaxWrites]
                   ELSE IF t = "t2" THEN [allocs |-> 1, writes |-> 0]
                   ELSE [allocs |-> 0, writes |-> 0]]

\* these callers under a fair executor: a task that is ready to run is
\* polled again; callers are free never to start another operation
\* one caller that makes MaxCycles allocate calls of 64 bytes and returns its
\* blocks in any order; the return_block calls are recorded
InitPromote ==
    /\ InitAllocator(SmallConfig)
    /\ workload = [sizes |-> {64}, writes |-> {}, track |-> FALSE, log |-> TRUE]
    /\ budget = [t \in Tasks |->
                   IF t = "t1" THEN [allocs |-> MaxCycles, writes |-> 0]
                   ELSE [allocs |-> 0, writes |-> 0]]

SpecPromote == InitPromote /\ [][NextConcurrent]_vars

SpecFair == InitFair /\ [][Next]_vars /\ \A t \in Tasks : WF_vars(Continue(t))

SpecCancel == InitCancel /\ [][NextCancel]_vars

SpecBlock == InitBlock /\ [][NextBlock]_vars

SpecRecovery == InitRecovery /\ [][NextConcurrent]_vars

SpecErrors == InitErrors /\ [][Next]_vars

SpecConcurrent == InitConcurrent /\ [][NextConcurrent]_vars

SpecReuse == InitReuse /\ [][Next]_vars


\* ------------------------------------------------------------------ claims

\* the blocks a task has a handle on: those its caller holds and the one its
\* running operation has in hand
Owned(t) == held[t] \cup ({task[t].blk} \ {NoBlock})

AllHeld == UNION { held[t] : t \in Tasks }

\* the bytes the callers hold
HeldBytes == SumSizes([b \in BlockIds |-> blocks[b].size], AllHeld)

\* an allocate call of task t is returning a block to its caller
Returning(t) == task[t].pc = "ret_alloc" /\ task[t].err = "none"

\* C1: exclusivity: under every interleaving no block is in the hands of two
\* tasks at once, be it as a block a caller holds or as the block a running
\* allocate or deallocate has taken
Exclusivity ==
    \A t1, t2 \in Tasks : t1 # t2 => Owned(t1) \cap Owned(t2) = {}

\* C1 witness: two tasks allocate from the same size class at once; one is
\* returning the block the queue held, the other found the queue empty
ExclusivityWitness ==
    \E t1, t2 \in Tasks :
        /\ t1 # t2
        /\ Returning(t1) /\ task[t1].path = "hit"
        /\ task[t2].pc = "new_gen" /\ ~task[t2].retry
        /\ GetSizeClassIndex(task[t1].size) = GetSizeClassIndex(task[t2].size)

\* C2: zeroing: with zero_on_dealloc a block that comes back from a cache
\* queue or a pool free-list has every byte zero when allocate returns it
Zeroing ==
    config.zero_on_dealloc =>
        \A t \in Tasks :
            Returning(t) /\ task[t].path \in {"hit", "reuse"}
                => blocks[task[t].blk].data = {}

\* C2 witness: a block its previous holder wrote to is returned again, all zero
ZeroingWitness ==
    \E t \in Tasks :
        /\ config.zero_on_dealloc
        /\ Returning(t) /\ task[t].path \in {"hit", "reuse"}
        /\ blocks[task[t].blk].wrote
        /\ blocks[task[t].blk].data = {}

\* C3: global byte budget: the sizes of the blocks the callers hold at once
\* never add up to more than (max_memory * 3) / 4
HeldWithinBudget == HeldBytes <= EffectiveMax(config)

\* C4: budget on the statistics counter: between operations stats.current is
\* at most (max_memory * 3) / 4
CurrentWithinBudget ==
    Quiescent => stats.current_allocated <= EffectiveMax(config)

\* C5: round-up determinism: a successful allocate(size) with
\* min_block_size <= size <= max_block_size returns a block of size
\* next_power_of_two(max(size, min_block_size))
RoundUp ==
    \A t \in Tasks :
        /\ Returning(t)
        /\ config.min_block_size <= task[t].size
        /\ task[t].size <= config.max_block_size
        => blocks[task[t].blk].size =
              NextPowerOfTwo(Max(task[t].size, config.min_block_size))

\* C7: monotonic generation: each new_generation call returns a value above
\* those of all calls before it, so no two calls return the same value
MonotonicGeneration ==
    \A i, j \in 1 .. Len(issued) : i < j => issued[i] < issued[j]

\* C7 witness: two tasks have called new_generation in the same period and
\* both stand right after it
MonotonicGenerationWitness ==
    \E t1, t2 \in Tasks :
        /\ t1 # t2
        /\ task[t1].pc = "pool_load" /\ task[t2].pc = "pool_load"
        /\ Len(issued) >= 3

\* C9: statistics deltas: a successful allocate has added the size of the
\* block it returns to stats.allocated, and a deallocate has added the size of
\* its block to stats.freed
StatsDeltas ==
    \A t \in Tasks :
        /\ Returning(t) => task[t].contrib = blocks[task[t].blk].size
        /\ task[t].pc = "ret_dealloc" => task[t].contrib = task[t].size

\* C10: with no operation in progress stats.current is the number of bytes
\* the callers hold
CurrentIsHeld == Quiescent => stats.current_allocated = HeldBytes


ConcurrentAllocateSucceeds ==
    \A t \in Tasks : task[t].pc = "ret_alloc" => task[t].err = "none"


\* C11: a request whose rounded size is above max_block_size fails with
\* OutOfMemory: allocate returns neither a block nor another error for it
OversizeIsOutOfMemory ==
    \A t \in Tasks :
        /\ task[t].pc = "ret_alloc"
        /\ NextPowerOfTwo(task[t].size) > config.max_block_size
        => task[t].err = "OutOfMemory"

\* C12: a request whose rounded size is below min_block_size fails with
\* InvalidSize, whatever the cache queues hold
UndersizeIsInvalidSize ==
    \A t \in Tasks :
        /\ task[t].pc = "ret_alloc"
        /\ NextPowerOfTwo(task[t].size) < config.min_block_size
        => task[t].err = "InvalidSize"


\* C13: recovery after release: in a sequential run an allocate(s) that starts
\* right after the deallocate of a block b has completed, with the rounded
\* size of s equal to the size of b, returns a block
RecoveryAfterRelease ==
    \A t \in Tasks :
        /\ reuse.phase = 5
        /\ task[t].pc = "ret_alloc"
        /\ blocks[reuse.blk].size =
              NextPowerOfTwo(Max(task[t].size, config.min_block_size))
        => task[t].err = "none"


\* C14: try_acquire returns true iff the in-use bit was clear just before the
\* call; of the tasks that call it on a block at most one holds a true result
\* at a time, and the bit is set exactly while some task does, so no call
\* returns true again until release is called
TryAcquireOnce ==
    /\ \A t \in Tasks :
          task[t].path = "try_acquire"
              => (task[t].acquired <=> ~task[t].was_in_use)
    /\ \A t1, t2 \in Tasks : t1 # t2 => held[t1] \cap held[t2] = {}
    /\ \A b \in BlockIds : blocks[b].in_use <=> \E t \in Tasks : b \in held[t]

\* C14 witness: three tasks have called try_acquire on the same block with no
\* release since; one got true and the two others false
TryAcquireOnceWitness ==
    \E b \in BlockIds :
        /\ \A t \in Tasks : task[t].path = "try_acquire" /\ task[t].blk = b
        /\ Cardinality({t \in Tasks : task[t].acquired}) = 1
        /\ Cardinality({t \in Tasks : b \in held[t]}) = 1


\* C15: each allocate call changes the hit and miss counters by one in all:
\* one hit when a size class queue served the block, else one miss and no hit
HitOrMissOnce ==
    \A t \in Tasks :
        task[t].pc = "ret_alloc"
            => /\ task[t].hits + task[t].misses = 1
               /\ task[t].hits = 1 <=> task[t].path = "hit"

\* the blocks waiting in the hot and cold queues of the size classes
InCacheQueues ==
    UNION { { hot_queue[c][i] : i \in 1 .. Len(hot_queue[c]) } \cup
            { cold_queue[c][i] : i \in 1 .. Len(cold_queue[c]) } : c \in ClassIdx }

\* the blocks waiting in the free-list of SizePool p
InFreeList(p) == { free_blocks[p][i] : i \in 1 .. Len(free_blocks[p]) }

InFreeLists == UNION { InFreeList(p) : p \in DOMAIN free_blocks }

\* C16: deallocate routes by size: blocks above 8192 bytes wait in the pool
\* free-list of their exact size only, blocks of at most 8192 bytes in size
\* class queues only, and a deallocate that has taken the way to a size class
\* does push its block
DeallocRoutesBySize ==
    /\ \A b \in InCacheQueues : blocks[b].size <= 8192
    /\ \A p \in DOMAIN free_blocks : \A b \in InFreeList(p) :
          blocks[b].size > 8192 /\ blocks[b].size = CreateSizePools(config)[p]
    /\ \A t \in Tasks :
          /\ task[t].pc = "ret_dealloc"
                => task[t].path = IF task[t].size > 8192 THEN "pool" ELSE "cache"
          /\ task[t].pc \in {"return_load", "return_push"}
                => /\ task[t].size <= 8192
                   /\ task[t].size = ClassSize(GetSizeClassIndex(task[t].size))
          /\ task[t].pc \in {"pool_sub", "pool_push"} => task[t].size > 8192

\* C17: with no operation in progress total_memory is the bytes the callers
\* hold plus the bytes waiting in pool free-lists and cache queues
TotalMemoryIsLiveBytes ==
    Quiescent =>
        total_memory =
            SumSizes([b \in BlockIds |-> blocks[b].size],
                     AllHeld \cup InCacheQueues \cup InFreeLists)

\* C19: every block BlockCache::deallocate hands to return_block has the size
\* of the class, so return_block never panics and every block in a hot or
\* cold queue has the length of its class
ReturnBlockSizeMatches ==
    /\ \A t \in Tasks :
          task[t].pc = "return_load"
              => blocks[task[t].blk].size = ClassSize(GetSizeClassIndex(task[t].size))
    /\ \A c \in ClassIdx :
          /\ \A i \in 1 .. Len(hot_queue[c]) :
                blocks[hot_queue[c][i]].size = ClassSize(c)
          /\ \A i \in 1 .. Len(cold_queue[c]) :
                blocks[cold_queue[c][i]].size = ClassSize(c)


\* C18: an allocate call that returns OutOfMemory or InvalidSize has taken no
\* block off a hot, cold or free-list queue, has not moved total_memory and
\* has added nothing to the byte counters
ErrorLeavesStateAlone ==
    \A t \in Tasks :
        task[t].pc = "ret_alloc" /\ task[t].err \in {"OutOfMemory", "InvalidSize"}
            => ~task[t].changed /\ task[t].contrib = 0

\* C18 witness: an allocate returns OutOfMemory after the attempt of
\* cache.allocate and the one of the Err arm, while memory is reserved and a
\* block waits in a queue
ErrorLeavesStateAloneWitness ==
    \E t \in Tasks :
        /\ task[t].pc = "ret_alloc" /\ task[t].err = "OutOfMemory"
        /\ task[t].retry /\ ~task[t].changed
        /\ total_memory > 0
        /\ InCacheQueues \cup InFreeLists # {}

\* C20: every block's generation is at most current_generation, so
\* verify_generation passes and allocate never returns InvalidGeneration
GenerationVerified ==
    /\ \A b \in BlockIds : Generation(b) <= current_generation
    /\ \A t \in Tasks : task[t].pc = "ret_alloc" => task[t].err # "InvalidGeneration"

\* C20 witness: verify_generation has passed a block that came back from a
\* queue after the counter had moved on
GenerationVerifiedWitness ==
    \E t \in Tasks :
        /\ Returning(t) /\ task[t].path = "hit" /\ task[t].hits = 2
        /\ Generation(task[t].blk) + 1 < current_generation


\* the queue slots that hold block b: in the hot and cold queue of every size
\* class and in the free-list of every SizePool
SlotsOf(b) ==
    UNION { { <<"hot", c, i>> :
                i \in { j \in 1 .. Len(hot_queue[c]) : hot_queue[c][j] = b } } \cup
            { <<"cold", c, i>> :
                i \in { j \in 1 .. Len(cold_queue[c]) : cold_queue[c][j] = b } }
            : c \in ClassIdx }
    \cup
    UNION { { <<"free", p, i>> :
                i \in { j \in 1 .. Len(free_blocks[p]) : free_blocks[p][j] = b } }
            : p \in DOMAIN free_blocks }

\* the number of places block b is in: the tasks that hold it or have it in
\* hand, and the queue slots that store it
Places(b) ==
    Cardinality({ t \in Tasks : b \in Owned(t) }) + Cardinality(SlotsOf(b))

\* C21: block conservation: each block ever created is in exactly one place,
\* with one caller (or the one operation that processes it) or in one slot of
\* one queue; the allocator drops no block
BlockConservation == \A b \in BlockIds : Places(b) = 1


\* C22: cancellation safety of allocate: whatever allocate futures have been
\* dropped at a suspension point, every block with the in-use bit set is held
\* by a caller, in the hands of a running operation or in a queue, and
\* total_memory reserves bytes for such blocks only
CancelLeaksNothing ==
    /\ \A b \in BlockIds : blocks[b].in_use => Places(b) >= 1
    /\ total_memory =
          SumSizes([b \in BlockIds |-> blocks[b].size],
                   { b \in BlockIds : Places(b) >= 1 })


\* C23: every block a caller holds has its in-use bit set, whether it came
\* from a cache queue, from a pool free-list or was freshly created
HeldIsInUse == \A b \in AllHeld : blocks[b].in_use

\* the positions of an allocate at which no block has been obtained yet
Searching(t) ==
    task[t].pc \in {"hot", "cold", "new_gen", "pool_load", "pool_pop", "pool_cas"}

\* C24: every block in a hot queue, a cold queue or a free-list has its in-use
\* bit clear (and a block in a class's queue has the class's size), so the
\* try_acquire after a pop succeeds: no allocate that is still looking for a
\* block has taken one off a queue and discarded it
QueuedIsFree ==
    /\ \A b \in InCacheQueues \cup InFreeLists : ~blocks[b].in_use
    /\ \A c \in ClassIdx :
          \A i \in 1 .. Len(hot_queue[c]) : blocks[hot_queue[c][i]].size = ClassSize(c)
    /\ \A c \in ClassIdx :
          \A i \in 1 .. Len(cold_queue[c]) : blocks[cold_queue[c][i]].size = ClassSize(c)
    /\ \A t \in Tasks : Searching(t) => ~task[t].changed

\* C24 witness: a block that had been acquired from a queue and returned has
\* been popped and acquired again
QueuedIsFreeWitness ==
    \E t \in Tasks :
        /\ task[t].pc = "count"
        /\ allocation_count[GetSizeClassIndex(task[t].size)] >= 1
        /\ blocks[task[t].blk].in_use


\* C26: a block whose zeroed bit is set has every byte zero, in every state,
\* the states between the chunks of a write or a clear included
ZeroedMeansZero == \A b \in BlockIds : blocks[b].zeroed => blocks[b].data = {}


\* C28: total_memory never wraps below zero: whenever MemoryPool::deallocate
\* is about to subtract a block's size, total_memory is at least that size
NoUnderflow ==
    \A t \in Tasks : task[t].pc = "pool_sub" => total_memory >= task[t].size


\* task t is inside an allocate or a deallocate call
InAllocOrDealloc(t) ==
    task[t].pc \in {"hot", "cold", "count", "new_gen", "pool_load", "pool_pop",
                    "pool_cas", "verify", "ret_alloc", "clear", "return_load",
                    "return_push", "pool_sub", "pool_push", "ret_dealloc"}

\* the call of task t is over: it returned or it panicked
CallOver(t) == task[t].pc \in {"idle", "panicked"}

\* C25: under a fair scheduler every allocate and every deallocate call that
\* has started comes to an end, whatever the other tasks do: no step loops
\* and none waits for another task
CallsTerminate == \A t \in Tasks : InAllocOrDealloc(t) ~> CallOver(t)

\* C25 witness: an allocate returns OutOfMemory right after its second
\* compare_exchange was lost: the budget check had passed on its snapshot of
\* total_memory, which another task has changed since
CallsTerminateWitness ==
    \E t \in Tasks :
        /\ task[t].pc = "ret_alloc" /\ task[t].err = "OutOfMemory" /\ task[t].retry
        /\ WithinBudget(task[t].current_total, ActualSize(task[t].size))
        /\ task[t].current_total # total_memory


\* the recorded return_block calls on size class c, in order
ReturnsOf(c) == SelectSeq(returned, LAMBDA r : r.class = c)

\* C27: within one size class, of any 8 consecutive return_block calls
\* exactly one pushes the block to the hot queue and seven push to the cold one
EveryEighthReturn ==
    \A c \in ClassIdx :
        \A i \in 1 .. Len(ReturnsOf(c)) - 7 :
            Cardinality({ j \in i .. i + 7 : ReturnsOf(c)[j].hot }) = 1

\* C27, amended: a return_block call pushes to the hot queue exactly when the
\* allocation_count it loaded, the number of successful get_block calls on
\* the class so far, is a multiple of 8; the position of the return among the
\* returns plays no part
PromoteByAllocationCount ==
    \A i \in 1 .. Len(returned) :
        /\ returned[i].hot <=> returned[i].count % 8 = 0
        /\ returned[i].count <= allocation_count[returned[i].class]

\* C27 witness: the return after the eighth successful get_block went to the
\* hot queue, after returns that went to the cold queue
PromoteByAllocationCountWitness ==
    \E i, j \in 1 .. Len(returned) :
        /\ returned[i].count = 8 /\ returned[i].hot
        /\ j < i /\ ~returned[j].hot

====
